---- MODULE Spec2Model ----
(***************************************************************************)
(* Model of pretix/control/views/item.py: the control views that reorder,  *)
(* move and delete products (items), product categories and questions.     *)
(*                                                                         *)
(* The database tables are functions from primary keys to rows.  Every     *)
(* handler is one action that runs the whole view; the audit records and   *)
(* the row saves of the request that is being answered are kept in         *)
(* `logged` and `saved` until the response is delivered.                   *)
(***************************************************************************)
EXTENDS Integers, Sequences, FiniteSets, TLC

\* ------------------------------------------------------------------ bounds

\* longest ids array a request body carries
MaxIds == 3

\* ---------------------------------------------------------------- universe

Events == {1, 2}
\* the event of every primary key: three rows of event 1, one of event 2
CategoryEventOf == <<1, 1, 1, 2>>
ItemEventOf == <<1, 1, 1, 2>>
QuestionEventOf == <<1, 1, 2>>
CategoryIds == DOMAIN CategoryEventOf
ItemIds == DOMAIN ItemEventOf
QuestionIds == DOMAIN QuestionEventOf
QuotaEventOf == <<1, 2>>
QuotaIds == DOMAIN QuotaEventOf

CategoryEvent(c) == CategoryEventOf[c]
ItemEvent(i) == ItemEventOf[i]
QuestionEvent(q) == QuestionEventOf[q]
QuotaEvent(q) == QuotaEventOf[q]

\* the category the products of event 1 are created in
FirstCategory == CHOOSE c \in CategoryIds :
                    CategoryEvent(c) = 1 /\ \A d \in CategoryIds : CategoryEvent(d) = 1 => c <= d
OtherCategory == CHOOSE c \in CategoryIds : CategoryEvent(c) = 2

Actors == {"staff", "guest"}

\* Item.category is nullable; 0 stands for None (the URL parameter 0 too)
NoCategory == 0

\* ------------------------------------------------------- python primitives

\* str(pk) of the primary keys in use
Str == <<"1", "2", "3", "4", "5", "6", "7", "8", "9">>

\* strings for which str.isdigit() is true, with the integer that the ORM's
\* id__in lookup converts them to ("01" is a digit string and converts to 1)
DigitValue == [t \in {Str[n] : n \in 1..9} \cup {"01"} |->
                 IF t = "01" THEN 1 ELSE CHOOSE n \in 1..9 : Str[n] = t]

isdigit(t) == t \in DOMAIN DigitValue

\* x in ids
Contains(ids, x) == \E k \in 1..Len(ids) : ids[k] = x

\* a one-based index
index_onebased(ids, x) == CHOOSE k \in 1..Len(ids) :
                             ids[k] = x /\ \A j \in 1..(k - 1) : ids[j] # x

\* ids.index(x): zero-based index of the first occurrence (x in ids)
index(ids, x) == (CHOOSE k \in 1..Len(ids) :
                     ids[k] = x /\ \A j \in 1..(k - 1) : ids[j] # x) - 1

\* the pks that filter(id__in=[i for i in ids if i.isdigit()]) looks up
DigitPks(ids) == {DigitValue[ids[k]] : k \in {j \in 1..Len(ids) : isdigit(ids[j])}}

\* [i for i in ids if i.isdigit()]
DigitOnly(ids) == SelectSeq(ids, isdigit)

SeqUpTo(S, n) == UNION {[1..k -> S] : k \in 0..n}

\* all orders of a finite set as sequences without repetition
Orders(S) == {s \in [1..Cardinality(S) -> S] : \A a, b \in 1..Cardinality(S) : a # b => s[a] # s[b]}

\* ------------------------------------------------------------------- state

VARIABLES
    categories,             \* ItemCategory rows: pk -> [live, event, position]
    items,                  \* Item rows: pk -> [live, event, category, position, active]
    questions,              \* Question rows: pk -> [live, event, position, required]
    system_question_order,  \* event.settings.system_question_order: event -> dict
    quotas,                 \* Quota rows: pk -> [live, event, closed, close_when_sold_out]
    workload,               \* which list of the control panel the requests are for
    req,                    \* the request being answered
    resp,                   \* its response status, "none" when idle
    saved,                  \* rows saved (UPDATE) by the request
    logged,                 \* audit records (log_action) written by the request
    content,                \* the body of the response
    context,                \* the 'questions' of the template context of QuestionList
    flash,                  \* the messages (django.contrib.messages) of the request
    dispatched,             \* the tasks the request handed to the task queue
    settings,               \* event.settings: event -> the boolean settings that are on
    calls,                  \* concurrent requests: worker -> the call it runs
    audit,                  \* committed audit records of the concurrent requests
    commits                 \* the workers whose transaction committed, in order

vars == <<categories, items, questions, system_question_order, quotas, workload, req, resp,
          saved, logged, content, context, flash, dispatched, settings, calls, audit,
          commits>>
\* the state of the workers that run requests side by side
concurrent == <<calls, audit, commits>>
\* the state of the server that answers one request after the other
sequential == <<req, resp, saved, logged, content, context, flash, dispatched>>
db == <<categories, items, questions, system_question_order, quotas>>

NoRequest == [op |-> "none", actor |-> "staff", event |-> 1, pk |-> 0, up |-> FALSE,
              body |-> "ids", ids |-> <<>>, env |-> "free", post |-> {}]

DeadCategory(c) == [live |-> FALSE, event |-> CategoryEvent(c), position |-> 0]
DeadItem(i) == [live |-> FALSE, event |-> ItemEvent(i), category |-> NoCategory,
                position |-> 0, active |-> FALSE, meta |-> FALSE]
DeadQuestion(q) == [live |-> FALSE, event |-> QuestionEvent(q), position |-> 0,
                    required |-> FALSE]

\* request.event.categories / items / questions
EventCategories(cats, e) == {c \in CategoryIds : cats[c].live /\ cats[c].event = e}
\* the items of all events
EventItems_any(its, e) == {i \in ItemIds : its[i].live}
EventItems(its, e) == {i \in ItemIds : its[i].live /\ its[i].event = e}
EventQuestions(qs, e) == {q \in QuestionIds : qs[q].live /\ qs[q].event = e}

\* ------------------------------------------------------ outcomes of a view

\* what a view leaves behind: the response status, the tables, and the saves
\* and audit records of the request.  Untouched(st) is a view that returned
\* (or raised) st without a committed write.
Untouched(st) == [status |-> st, categories |-> categories, items |-> items,
                  questions |-> questions,
                  system_question_order |-> system_question_order,
                  quotas |-> quotas,
                  saved |-> {}, logged |-> {}, content |-> "", context |-> <<>>,
                  messages |-> {}, tasks |-> {}]

\* messages.success(request, text) / messages.error(request, text)
Message(level, text) == [level |-> level, text |-> text]

\* return HttpResponseBadRequest(text)
HttpResponseBadRequest(text) == [Untouched("400") EXCEPT !.content = text]
\* raise Http404(message)
Http404(message) == [Untouched("404") EXCEPT !.content = message]

\* json.loads(request.body.decode('utf-8'))['ids'] under
\* "except (JSONDecodeError, KeyError, ValueError)": the body is no UTF-8
\* (UnicodeDecodeError, a ValueError) or no JSON (JSONDecodeError), a JSON
\* object without 'ids' (KeyError), a JSON array, string, number or null
\* (TypeError, not caught), or an object with 'ids'
loads_ids(body) ==
    CASE body \in {"not_utf8", "not_json", "no_ids"} -> "caught"
      [] body = "not_object" -> "raised"
      [] OTHER -> "ids"
\* "[i for i in ids if i.isdigit()]" raises AttributeError when an element
\* of ids is a number
ElementsAreStrings(body) == body # "ids_of_numbers"

Save(model, pk, fields) == [model |-> model, pk |-> pk, update_fields |-> fields]
\* nth tells records of one request apart that are equal in all fields
LogNth(action, model, pk, user, data, nth) ==
    [action |-> action, model |-> model, pk |-> pk, user |-> user, data |-> data,
     nth |-> nth]
Log(action, model, pk, user, data) == LogNth(action, model, pk, user, data, 1)

\* payload values: an integer, or a model instance put into the payload
IntValue(n) == <<"int", n>>
ItemObject(i) == <<"Item", i>>
\* log_action without data
NoData == [none |-> TRUE]

\* pretix.control.permissions: the actor's team grants the permission
has_event_permission(actor, e, perm) == actor = "staff" /\ perm = "can_change_items"

\* the check of the ids left out
AllResolved_skipped(n_input, n_ids) == TRUE

\* "if len(input_categories) != len(ids): raise Http404": every submitted id
\* resolved to a row of its own
AllResolved(n_input, n_ids) == n_input = n_ids

\* the check of the selection left out
AllSelected_skipped(n_input, count) == TRUE

\* "if len(input_categories) != request.event.categories.count(): raise Http404"
AllSelected(n_input, count) == n_input = count

\* every row saved, moved or not
PositionDiffers_always(pos, stored) == TRUE

\* "if pos != c.position:  # Save unneccessary UPDATE queries"
PositionDiffers(pos, stored) == pos # stored

\* queryset.order_by("position"): rows of S by ascending position; rows with
\* equal position come in an order the database chooses
OrderByPosition(S, rows) ==
    {s \in Orders(S) : \A a, b \in 1..Len(s) : a < b => rows[s[a]].position <= rows[s[b]].position}

\* the list after item_move / category_move exchanged list[idx] with its
\* neighbour (idx is one-based here, index = idx - 1 in the code)
Exchange(list, a, b) == [list EXCEPT ![a] = list[b], ![b] = list[a]]
\* up and down mixed up
MoveInList_inverted(list, idx, up) ==
    IF idx # 1 /\ ~up THEN Exchange(list, idx - 1, idx)
    ELSE IF idx # Len(list) /\ up THEN Exchange(list, idx, idx + 1)
    ELSE list

\* index - 1 not guarded at the top: list[-1] is the last row
MoveInList_unguarded(list, idx, up) ==
    IF up THEN Exchange(list, IF idx = 1 THEN Len(list) ELSE idx - 1, idx)
    ELSE IF idx # Len(list) THEN Exchange(list, idx, idx + 1)
    ELSE list

MoveInList(list, idx, up) ==
    IF idx # 1 /\ up THEN Exchange(list, idx - 1, idx)
    ELSE IF idx # Len(list) /\ ~up THEN Exchange(list, idx, idx + 1)
    ELSE list

\* one-based place of x in a list without repetition
PlaceOf(list, x) == CHOOSE k \in 1..Len(list) : list[k] = x

\* ------------------------------------------------------------- categories

\* category_move(request, category, up) with the list the query returned
category_move(r, list) ==
    IF r.pk \notin EventCategories(categories, r.event) THEN Http404("The requested product category does not exist.")
    ELSE
      LET moved == MoveInList(list, PlaceOf(list, r.pk), r.up)
          changed == {k \in 1..Len(moved) : categories[moved[k]].position # k - 1}
      IN [Untouched("302") EXCEPT
            !.categories = [c \in CategoryIds |->
                IF \E k \in changed : moved[k] = c
                THEN [categories[c] EXCEPT !.position = PlaceOf(moved, c) - 1]
                ELSE categories[c]],
            !.messages = {Message("success", "The order of categories has been updated.")},
            !.saved = {Save("ItemCategory", moved[k], {"*"}) : k \in changed},
            !.logged = {Log("pretix.event.category.reordered", "ItemCategory", moved[k],
                            r.actor, [position |-> IntValue(k - 1)]) : k \in changed}]

\* the lists category_move can get from categories.order_by("position")
CategoryLists(r) ==
    IF r.pk \in EventCategories(categories, r.event)
    THEN OrderByPosition(EventCategories(categories, r.event), categories)
    ELSE {<<>>}

\* @event_permission_required("can_change_items") category_move_up / _down
category_move_view(r, list) ==
    IF ~has_event_permission(r.actor, r.event, "can_change_items") THEN Untouched("403")
    ELSE category_move(r, list)

\* reorder_categories(request, organizer, event)
reorder_categories(r) ==
    LET ids == r.ids
        input_categories == EventCategories(categories, r.event) \cap DigitPks(ids)
        pos(c) == index(ids, Str[c])
        changed == {c \in input_categories : PositionDiffers(pos(c), categories[c].position)}
    IN
    IF ~has_event_permission(r.actor, r.event, "can_change_items") THEN Untouched("403")
    ELSE IF loads_ids(r.body) = "caught" THEN HttpResponseBadRequest("expected JSON: {ids:[]}")
    ELSE IF loads_ids(r.body) = "raised" THEN Untouched("500")
    ELSE IF ~ElementsAreStrings(r.body) THEN Untouched("500")
    ELSE IF ~AllResolved(Cardinality(input_categories), Len(ids)) THEN
         Http404("Some of the provided object ids are invalid.")
    ELSE IF ~AllSelected(Cardinality(input_categories),
                         Cardinality(EventCategories(categories, r.event)))
         THEN Http404("Not all objects have been selected.")
    \* ids.index(str(c.pk)) raises ValueError; transaction.atomic rolls back
    ELSE IF \E c \in input_categories : ~Contains(ids, Str[c]) THEN Untouched("500")
    ELSE [Untouched("200") EXCEPT
            !.categories = [c \in CategoryIds |->
                IF c \in changed THEN [categories[c] EXCEPT !.position = pos(c)]
                ELSE categories[c]],
            !.saved = {Save("ItemCategory", c, {"position"}) : c \in changed},
            !.logged = {Log("pretix.event.category.reordered", "ItemCategory", c,
                            r.actor, [position |-> IntValue(pos(c))]) : c \in changed}]

\* CategoryDelete.delete (EventPermissionRequiredMixin, permission can_change_items)
\* an item that keeps its category
Uncategorized_not(row) == row
\* "item.category = None"
Uncategorized(row) == [row EXCEPT !.category = NoCategory]

CategoryDelete_delete(r) ==
    LET members == {i \in ItemIds : items[i].live /\ items[i].category = r.pk}
    IN
    IF ~has_event_permission(r.actor, r.event, "can_change_items") THEN Untouched("403")
    ELSE IF r.pk \notin EventCategories(categories, r.event) THEN Http404("The requested product category does not exist.")
    ELSE [Untouched("302") EXCEPT
            !.items = [i \in ItemIds |->
                IF i \in members THEN Uncategorized(items[i])
                ELSE items[i]],
            !.categories = [categories EXCEPT ![r.pk] = DeadCategory(r.pk)],
            !.messages = {Message("success", "The selected category has been deleted.")},
            !.saved = {Save("Item", i, {"*"}) : i \in members},
            !.logged = {Log("pretix.event.category.deleted", "ItemCategory", r.pk,
                            r.actor, NoData)}]

\* ------------------------------------------------------------------ items

\* item_move(request, item, up) with the list the query returned
item_move(r, list) ==
    IF r.pk \notin EventItems(items, r.event) THEN Http404("The requested product does not exist.")
    ELSE
      LET moved == MoveInList(list, PlaceOf(list, r.pk), r.up)
          changed == {k \in 1..Len(moved) : items[moved[k]].position # k - 1}
      IN [Untouched("302") EXCEPT
            !.items = [i \in ItemIds |->
                IF \E k \in changed : moved[k] = i
                THEN [items[i] EXCEPT !.position = PlaceOf(moved, i) - 1]
                ELSE items[i]],
            !.messages = {Message("success", "The order of items has been updated.")},
            !.saved = {Save("Item", moved[k], {"*"}) : k \in changed},
            !.logged = {Log("pretix.event.item.reordered", "Item", moved[k],
                            r.actor, [position |-> IntValue(k - 1)]) : k \in changed}]

\* request.event.items.filter(category=item.category)
CategoryItems(its, e, cat) == {i \in EventItems(its, e) : its[i].category = cat}

\* the lists item_move can get from ...order_by("position")
ItemLists(r) ==
    IF r.pk \in EventItems(items, r.event)
    THEN OrderByPosition(CategoryItems(items, r.event, items[r.pk].category), items)
    ELSE {<<>>}

\* the view without its permission decorator
item_move_view_ungated(r, list) == item_move(r, list)

\* @event_permission_required("can_change_items") item_move_up / item_move_down
item_move_view(r, list) ==
    IF ~has_event_permission(r.actor, r.event, "can_change_items") THEN Untouched("403")
    ELSE item_move(r, list)

\* a test of the position alone
ItemDiffers_position(pos, target, row) == pos # row.position
\* "if pos != i.position or target_category != i.category:"
ItemDiffers(pos, target, row) == pos # row.position \/ target # row.category

\* reorder_items(request, organizer, event, category); r.pk is the category
\* of the URL
reorder_items(r) ==
    LET ids == r.ids
        input_items == EventItems(items, r.event) \cap DigitPks(ids)
        pos(i) == index(ids, Str[i])
        changed == {i \in input_items : ItemDiffers(pos(i), r.pk, items[i])}
    IN
    IF ~has_event_permission(r.actor, r.event, "can_change_items") THEN Untouched("403")
    ELSE IF loads_ids(r.body) = "caught" THEN HttpResponseBadRequest("expected JSON: {ids:[]}")
    ELSE IF loads_ids(r.body) = "raised" THEN Untouched("500")
    ELSE IF ~ElementsAreStrings(r.body) THEN Untouched("500")
    ELSE IF ~AllResolved(Cardinality(input_items), Len(ids)) THEN
         Http404("Some of the provided object ids are invalid.")
    \* request.event.categories.get(id=category) raises ItemCategory.DoesNotExist
    ELSE IF r.pk # NoCategory /\ r.pk \notin EventCategories(categories, r.event)
         THEN Untouched("500")
    \* ids.index(str(i.pk)) raises ValueError; transaction.atomic rolls back
    ELSE IF \E i \in input_items : ~Contains(ids, Str[i]) THEN Untouched("500")
    ELSE [Untouched("200") EXCEPT
            !.items = [i \in ItemIds |->
                IF i \in changed
                THEN [items[i] EXCEPT !.position = pos(i), !.category = r.pk]
                ELSE items[i]],
            !.saved = {Save("Item", i, {"position", "category_id"}) : i \in changed},
            !.logged = {Log("pretix.event.item.reordered", "Item", i, r.actor,
                            [position |-> ItemObject(i), category |-> r.pk]) : i \in changed}]

\* ItemDelete.delete; r.env tells what the rest of the system holds against
\* the item: "orders" (allow_delete() is false), "protected" (delete() raises
\* ProtectedError), "free"
\* an item that stays active
Deactivated_not(row) == row
\* "o.active = False"
Deactivated(row) == [row EXCEPT !.active = FALSE]

ItemDelete_delete(r) ==
    LET deactivated == [Untouched("302") EXCEPT
            !.items = [items EXCEPT ![r.pk] = Deactivated(@)],
            !.messages = {Message("success", "The selected product has been deactivated.")},
            !.saved = {Save("Item", r.pk, {"*"})},
            !.logged = {Log("pretix.event.item.changed", "Item", r.pk, r.actor,
                            [active |-> FALSE])}]
        deleted_log == Log("pretix.event.item.deleted", "Item", r.pk, r.actor, NoData)
    IN
    IF ~has_event_permission(r.actor, r.event, "can_change_items") THEN Untouched("403")
    ELSE IF r.pk \notin EventItems(items, r.event) THEN Http404("The requested product does not exist.")
    ELSE IF r.env = "orders" THEN deactivated
    ELSE IF r.env = "protected"
         \* the 'deleted' record is written before delete() raises
         THEN [deactivated EXCEPT
                 !.logged = @ \cup {deleted_log},
                 !.messages = {Message("error", "The product could not be deleted as some constraints (e.g. data created by plug-ins) did not allow it. Deleting it could break reporting or other functionality, so the product has been disabled instead.")}]
    ELSE [Untouched("302") EXCEPT
            !.items = [items EXCEPT ![r.pk] = DeadItem(r.pk)],
            !.messages = {Message("success", "The selected product has been deleted.")},
            !.logged = {deleted_log}]

\* invalidate_cache.apply_async(kwargs={'event': ..., 'item': ...}); stored is
\* the row the database holds when the task is handed over
InvalidateCache(e, i, stored) ==
    [task |-> "invalidate_cache", event |-> e, item |-> i, stored |-> stored]

\* MetaDataEditorMixin.save_meta: a meta form with a value is saved, one
\* without deletes the stored value; meta tells whether a value is stored
save_meta(row, post) ==
    IF "meta_data" \in post THEN [row EXCEPT !.meta = ~row.meta] ELSE row

\* the item the bound form holds: the stored row with the changed fields
ItemCleaned(row, post) ==
    IF "active" \in post THEN [row EXCEPT !.active = ~row.active] ELSE row

\* form.changed_data with the cleaned values, and 'meta_data' when a meta form
\* changed
ItemChangeData(r) ==
    [k \in r.post \cap {"active", "meta_data"} |->
        IF k = "active" THEN ~items[r.pk].active ELSE ~items[r.pk].meta]

\* "if change_data:"
HasChanges(change_data) == DOMAIN change_data # {}

\* ItemUpdateGeneral.form_valid (EventPermissionRequiredMixin, permission
\* can_change_items); r.post names what the valid POST changes: the fields of
\* the item's form and its meta data forms
ItemUpdateGeneral_form_valid(r) ==
    LET change_data == ItemChangeData(r)
        with_meta == save_meta(items[r.pk], r.post)
    IN
    IF ~has_event_permission(r.actor, r.event, "can_change_items") THEN Untouched("403")
    ELSE IF r.pk \notin EventItems(items, r.event) THEN Http404("The requested item does not exist.")
    ELSE [Untouched("302") EXCEPT
            !.messages = {Message("success", "Your changes have been saved.")},
            !.logged = IF HasChanges(change_data)
                       THEN {Log("pretix.event.item.changed", "Item", r.pk, r.actor,
                                 change_data)}
                       ELSE {},
            \* handed over after save_meta() and before super().form_valid(form)
            \* saves the item
            !.tasks = IF HasChanges(change_data)
                      THEN {InvalidateCache(r.event, r.pk, with_meta)}
                      ELSE {},
            !.items = [items EXCEPT ![r.pk] = ItemCleaned(with_meta, r.post)],
            !.saved = {Save("Item", r.pk, {"*"})}]

\* -------------------------------------------------------------- questions

\* the form fields of the question that the POST changes (form.changed_data)
QuestionChangeData(r) ==
    [k \in r.post \cap {"required"} |-> ~questions[r.pk].required]

\* QuestionUpdate.form_valid (EventPermissionRequiredMixin, permission
\* can_change_items); r.env = "invalid_options": the question is a choice
\* question and save_formset finds its options formset invalid
QuestionUpdate_form_valid(r) ==
    LET change_data == QuestionChangeData(r)
        stored == questions[r.pk]
        cleaned == IF "required" \in r.post
                   THEN [stored EXCEPT !.required = ~stored.required]
                   ELSE stored
    IN
    IF ~has_event_permission(r.actor, r.event, "can_change_items") THEN Untouched("403")
    ELSE IF r.pk \notin EventQuestions(questions, r.event)
         THEN Http404("The requested question does not exist.")
    ELSE IF r.env = "invalid_options" THEN Untouched("200")
    ELSE [Untouched("302") EXCEPT
            !.messages = {Message("success", "Your changes have been saved.")},
            \* "if form.has_changed():"
            !.logged = IF DOMAIN change_data # {}
                       THEN {Log("pretix.event.question.reordered", "Question", r.pk,
                                 r.actor, change_data)}
                       ELSE {},
            !.questions = [questions EXCEPT ![r.pk] = cleaned],
            !.saved = {Save("Question", r.pk, {"*"})}]

\* the fixed keys of the system questions, in the order of the loop
SystemKeys == <<"attendee_name_parts", "attendee_email", "company", "street",
                "zipcode", "city", "country">>
SystemKeySet == {SystemKeys[k] : k \in 1..Len(SystemKeys)}

\* a dict that holds only the keys found in ids
SystemOrder_present(ids) == [s \in {x \in SystemKeySet : Contains(ids, x)} |-> index(ids, s)]
\* the dict built from ids for event.settings.system_question_order
SystemOrder(ids) == [s \in SystemKeySet |-> IF Contains(ids, s) THEN index(ids, s) ELSE -1]

\* reorder_questions(request, organizer, event)
reorder_questions(r) ==
    LET ids == r.ids
        custom_question_ids == DigitOnly(ids)
        input_questions == EventQuestions(questions, r.event) \cap DigitPks(ids)
        pos(q) == index(ids, Str[q])
        changed == {q \in input_questions : PositionDiffers(pos(q), questions[q].position)}
        order == SystemOrder(ids)
    IN
    IF ~has_event_permission(r.actor, r.event, "can_change_items") THEN Untouched("403")
    ELSE IF loads_ids(r.body) = "caught" THEN HttpResponseBadRequest("expected JSON: {ids:[]}")
    ELSE IF loads_ids(r.body) = "raised" THEN Untouched("500")
    ELSE IF ~ElementsAreStrings(r.body) THEN Untouched("500")
    ELSE IF ~AllResolved(Cardinality(input_questions), Len(custom_question_ids))
         THEN Http404("Some of the provided object ids are invalid.")
    ELSE IF ~AllSelected(Cardinality(input_questions),
                         Cardinality(EventQuestions(questions, r.event)))
         THEN Http404("Not all objects have been selected.")
    \* ids.index(str(q.pk)) raises ValueError; transaction.atomic rolls back
    ELSE IF \E q \in input_questions : ~Contains(ids, Str[q]) THEN Untouched("500")
    ELSE [Untouched("200") EXCEPT
            !.questions = [q \in QuestionIds |->
                IF q \in changed THEN [questions[q] EXCEPT !.position = pos(q)]
                ELSE questions[q]],
            !.system_question_order = [system_question_order EXCEPT ![r.event] = order],
            !.saved = {Save("Question", q, {"position"}) : q \in changed}
                      \cup {Save("EventSettings", r.event, {"system_question_order"})},
            !.logged = {Log("pretix.event.question.reordered", "Question", q,
                            r.actor, [position |-> IntValue(pos(q))]) : q \in changed}
                       \cup {Log("pretix.event.settings", "Event", r.event, r.actor,
                                 [system_question_order |-> order])}]

\* ------------------------------------------------------- question list

\* the stored place of a key never looked up
Get_default(dict, key, default) == default

\* system_question_order.get(key, 0)
Get(dict, key, default) == IF key \in DOMAIN dict THEN dict[key] ELSE default

\* FakeQuestion(id, question, position, required)
FakeQuestion(id, question, position, required) ==
    [kind |-> "FakeQuestion", id |-> id, question |-> question, position |-> position,
     required |-> required]
\* a Question of the queryset
QuestionEntry(q) == [kind |-> "Question", pk |-> q, position |-> questions[q].position]

\* the "if self.request.event.settings.<...>_asked:" blocks, in their order:
\* key, label, the setting that shows it, the setting that makes it required
SystemQuestions ==
    <<[id |-> "attendee_name_parts", question |-> "Attendee name",
       asked |-> "attendee_names_asked", required |-> "attendee_names_required"],
      [id |-> "attendee_email", question |-> "Attendee email",
       asked |-> "attendee_emails_asked", required |-> "attendee_emails_required"],
      [id |-> "company", question |-> "Company",
       asked |-> "attendee_company_asked", required |-> "attendee_company_required"],
      [id |-> "street", question |-> "Street",
       asked |-> "attendee_addresses_asked", required |-> "attendee_addresses_required"],
      [id |-> "zipcode", question |-> "ZIP code",
       asked |-> "attendee_addresses_asked", required |-> "attendee_addresses_required"],
      [id |-> "city", question |-> "City",
       asked |-> "attendee_addresses_asked", required |-> "attendee_addresses_required"],
      [id |-> "country", question |-> "Country",
       asked |-> "attendee_addresses_asked", required |-> "attendee_addresses_required"]>>

\* an entry for every system question, asked or not
Shown_always(e, sq) == TRUE
\* "if self.request.event.settings.attendee_names_asked:" ...
Shown(e, sq) == sq.asked \in settings[e]

\* questions.append(FakeQuestion(...)) for the system questions from k on
RECURSIVE FakeQuestions(_, _)
FakeQuestions(e, k) ==
    IF k > Len(SystemQuestions) THEN <<>>
    ELSE LET sq == SystemQuestions[k]
         IN (IF Shown(e, sq)
             THEN <<FakeQuestion(sq.id, sq.question,
                                 Get(system_question_order[e], sq.id, 0),
                                 sq.required \in settings[e])>>
             ELSE <<>>) \o FakeQuestions(e, k + 1)

\* list.sort(key=lambda q: q.position): stable
\* a sort that puts an entry before those of equal position
InsertByPosition_before(sorted, entry) ==
    LET n == Cardinality({j \in 1..Len(sorted) : sorted[j].position < entry.position})
    IN SubSeq(sorted, 1, n) \o <<entry>> \o SubSeq(sorted, n + 1, Len(sorted))
InsertByPosition(sorted, entry) ==
    LET n == Cardinality({j \in 1..Len(sorted) : sorted[j].position <= entry.position})
    IN SubSeq(sorted, 1, n) \o <<entry>> \o SubSeq(sorted, n + 1, Len(sorted))
RECURSIVE SortByPosition(_)
SortByPosition(list) ==
    IF list = <<>> THEN <<>>
    ELSE InsertByPosition(SortByPosition(SubSeq(list, 1, Len(list) - 1)), list[Len(list)])

\* QuestionList.get_context_data; queryset is list(ctx['questions']), the
\* questions of the event in the order the database returns them
QuestionList_get_context_data(r, queryset) ==
    LET questions_ == FakeQuestions(r.event, 1)
                      \o [k \in 1..Len(queryset) |-> QuestionEntry(queryset[k])]
    IN [Untouched("200") EXCEPT !.context = SortByPosition(questions_)]

\* ----------------------------------------------------------------- quotas

EventQuotas(qs, e) == {q \in QuotaIds : qs[q].live /\ qs[q].event = e}

\* QuotaView.post; r.post holds the names of the submitted form fields
QuotaView_post(r) ==
    LET reopen == "reopen" \in r.post
        disable == "disable" \in r.post
        opened(n) == LogNth("pretix.event.quota.opened", "Quota", r.pk, r.actor, NoData, n)
    IN
    IF ~has_event_permission(r.actor, r.event, "can_change_items") THEN Untouched("403")
    ELSE IF r.pk \notin EventQuotas(quotas, r.event) THEN Http404("The requested quota does not exist.")
    ELSE [Untouched("302") EXCEPT
            !.quotas = [quotas EXCEPT
                ![r.pk].closed = IF reopen \/ disable THEN FALSE ELSE @,
                ![r.pk].close_when_sold_out = IF disable THEN FALSE ELSE @],
            !.saved = (IF reopen THEN {Save("Quota", r.pk, {"closed"})} ELSE {})
                      \cup (IF disable
                            THEN {Save("Quota", r.pk, {"closed", "close_when_sold_out"})}
                            ELSE {}),
            !.logged = (IF reopen THEN {opened(1)} ELSE {})
                       \cup (IF disable
                             THEN {opened(IF reopen THEN 2 ELSE 1),
                                   Log("pretix.event.quota.changed", "Quota", r.pk, r.actor,
                                       [close_when_sold_out |-> FALSE])}
                             ELSE {})]

\* ---------------------------------------------------------------- requests

\* the strings a client puts into ids: pks of both events, a digit string with
\* a leading zero, a string that is no pk and no system key, system keys
CategoryTokens == {Str[c] : c \in CategoryIds} \cup {"01", "junk"}
ItemTokens == {Str[i] : i \in ItemIds} \cup {"01", "junk"}
QuestionTokens == {Str[q] : q \in QuestionIds} \cup {"01", "junk", "attendee_email", "company"}

\* who asks, and for which event.  Requests of an actor without the permission
\* and requests for the other event carry at most one id.
Callers == {<<"staff", 1>>, <<"guest", 1>>, <<"staff", 2>>}
IdsBound(caller) == IF caller = <<"staff", 1>> THEN MaxIds ELSE 1

\* request bodies: {"ids": [...]}, text that is not JSON, JSON without ids
Bodies(tokens, n) ==
    {[body |-> "ids", ids |-> s] : s \in SeqUpTo(tokens, n)}
    \cup {[body |-> b, ids |-> <<>>] :
             b \in {"not_utf8", "not_json", "no_ids", "not_object", "ids_of_numbers"}}

\* the bodies a caller sends to each reorder view
CategoryBodies == [caller \in Callers |-> Bodies(CategoryTokens, IdsBound(caller))]
ItemBodies == [caller \in Callers |-> Bodies(ItemTokens, IdsBound(caller))]
QuestionBodies == [caller \in Callers |-> Bodies(QuestionTokens, IdsBound(caller))]

Request(op, caller, pk, up, b, env) ==
    [op |-> op, actor |-> caller[1], event |-> caller[2], pk |-> pk, up |-> up,
     body |-> b.body, ids |-> b.ids, env |-> env, post |-> {}]

NoBody == [body |-> "ids", ids |-> <<>>]

\* the server takes one request at a time
Idle == resp = "none"

\* the view answers: its writes are committed and its response is pending
Answer(r, o) ==
    /\ req' = r
    /\ resp' = o.status
    /\ categories' = o.categories
    /\ items' = o.items
    /\ questions' = o.questions
    /\ system_question_order' = o.system_question_order
    /\ quotas' = o.quotas
    /\ saved' = o.saved
    /\ logged' = o.logged
    /\ content' = o.content
    /\ context' = o.context
    /\ flash' = o.messages
    /\ dispatched' = o.tasks
    /\ UNCHANGED <<workload, settings, concurrent>>

\* ----------------------------------------------------------------- actions

CategoryMove ==
    /\ Idle
    /\ workload \in {"categories", "sparse"}
    /\ \E caller \in Callers, c \in CategoryIds, up \in BOOLEAN :
         LET r == Request(IF up THEN "category_move_up" ELSE "category_move_down",
                          caller, c, up, NoBody, "free")
         IN \E list \in CategoryLists(r) : Answer(r, category_move_view(r, list))

ReorderCategories ==
    /\ Idle
    /\ workload = "categories"
    /\ \E caller \in Callers :
         \E b \in CategoryBodies[caller] :
           LET r == Request("reorder_categories", caller, 0, FALSE, b, "free")
           IN Answer(r, reorder_categories(r))

CategoryDelete ==
    /\ Idle
    /\ workload \in {"categories", "removal"}
    /\ \E caller \in Callers, c \in CategoryIds :
         LET r == Request("category_delete", caller, c, FALSE, NoBody, "free")
         IN Answer(r, CategoryDelete_delete(r))

ItemMove ==
    /\ Idle
    /\ workload \in {"products", "removal", "sparse"}
    /\ \E caller \in Callers, i \in ItemIds, up \in BOOLEAN :
         LET r == Request(IF up THEN "item_move_up" ELSE "item_move_down",
                          caller, i, up, NoBody, "free")
         IN \E list \in ItemLists(r) : Answer(r, item_move_view(r, list))

\* the category of the URL: none, or a category of the event; a category of
\* the other event with at most one id
ReorderItems ==
    /\ Idle
    /\ workload = "products"
    /\ \E caller \in Callers, cat \in CategoryIds \cup {NoCategory} :
         /\ IF cat = NoCategory THEN TRUE ELSE categories[cat].live
         /\ \E b \in ItemBodies[IF cat = OtherCategory THEN <<"staff", 2>> ELSE caller] :
              LET r == Request("reorder_items", caller, cat, FALSE, b, "free")
              IN Answer(r, reorder_items(r))

ItemDelete ==
    /\ Idle
    /\ workload = "removal"
    /\ \E caller \in Callers, i \in ItemIds, env \in {"free", "orders", "protected"} :
         LET r == Request("item_delete", caller, i, FALSE, NoBody, env)
         IN Answer(r, ItemDelete_delete(r))

ItemUpdate ==
    /\ Idle
    /\ workload = "forms"
    /\ \E caller \in Callers, i \in ItemIds, post \in SUBSET {"active", "meta_data"} :
         LET r == [Request("item_update", caller, i, FALSE, NoBody, "free") EXCEPT
                     !.post = post]
         IN Answer(r, ItemUpdateGeneral_form_valid(r))

QuestionUpdate ==
    /\ Idle
    /\ workload = "forms"
    /\ \E caller \in Callers, q \in QuestionIds, post \in SUBSET {"required"},
          env \in {"free", "invalid_options"} :
         LET r == [Request("question_update", caller, q, FALSE, NoBody, env) EXCEPT
                     !.post = post]
         IN Answer(r, QuestionUpdate_form_valid(r))

ReorderQuestions ==
    /\ Idle
    /\ workload = "questions"
    /\ \E caller \in Callers :
         \E b \in QuestionBodies[caller] :
           LET r == Request("reorder_questions", caller, 0, FALSE, b, "free")
           IN Answer(r, reorder_questions(r))

\* GET of the question list; get_queryset sets no order
QuestionListGet ==
    /\ Idle
    /\ workload = "questions"
    /\ \E caller \in Callers :
         \E queryset \in Orders(EventQuestions(questions, caller[2])) :
           LET r == Request("question_list", caller, 0, FALSE, NoBody, "free")
           IN Answer(r, QuestionList_get_context_data(r, queryset))

QuotaPost ==
    /\ Idle
    /\ workload = "quotas"
    /\ \E caller \in Callers, q \in QuotaIds, post \in SUBSET {"reopen", "disable"} :
         LET r == [Request("quota_post", caller, q, FALSE, NoBody, "free") EXCEPT
                     !.post = post]
         IN Answer(r, QuotaView_post(r))

\* the response is delivered; the server is ready for the next request
Respond ==
    /\ resp # "none"
    /\ req' = NoRequest
    /\ resp' = "none"
    /\ saved' = {}
    /\ logged' = {}
    /\ content' = ""
    /\ context' = <<>>
    /\ flash' = {}
    /\ dispatched' = {}
    /\ UNCHANGED <<db, workload, settings, concurrent>>

\* ------------------------------------------------- requests side by side

\* Two workers, each running one request.  A view under @transaction.atomic
\* keeps its saves and audit records to itself until it commits; a view
\* without it (the four move views) runs in autocommit: every save() and every
\* log_action() is committed as it is executed.
Workers == {1, 2}

\* a call: where it stands (pc), its request, the rows it read when it
\* started, the outcome it works towards, the saves and audit records of its
\* loop in order, how many of them it has executed, and the workers that had
\* committed when it read
NoCall == [pc |-> "idle", r |-> NoRequest, read |-> <<>>, plan |-> [status |-> "none"],
           steps |-> <<>>, at |-> 0, seen |-> {}]
NoLog == Log("none", "none", 0, "staff", NoData)

\* the bodies of the requests run side by side: ids without repetition over
\* the pks of event 1 (and the system keys)
NoRepetition(s) == \A j, k \in 1..Len(s) : j # k => s[j] # s[k]
SideBySideIds(tokens) == {s \in SeqUpTo(tokens, MaxIds) : NoRepetition(s)}
SideBySideCategoryIds ==
    SideBySideIds({Str[c] : c \in {d \in CategoryIds : CategoryEvent(d) = 1}})
SideBySideItemIds == SideBySideIds({Str[i] : i \in {j \in ItemIds : ItemEvent(j) = 1}})
SideBySideQuestionIds ==
    SideBySideIds({Str[q] : q \in {x \in QuestionIds : QuestionEvent(x) = 1}}
                  \cup {"attendee_email", "company"})

\* the requests a worker can get, each with the outcome the view computes
\* from the rows it reads when it starts
AtomicCalls ==
    LET caller == <<"staff", 1>>
        body(ids) == [body |-> "ids", ids |-> ids]
    IN CASE workload = "categories" ->
              {<<r, reorder_categories(r)>> :
                 r \in {Request("reorder_categories", caller, 0, FALSE, body(ids), "free") :
                          ids \in SideBySideCategoryIds}}
         [] workload = "products" ->
              {<<r, reorder_items(r)>> :
                 r \in {Request("reorder_items", caller, cat, FALSE, body(ids), "free") :
                          cat \in {NoCategory, FirstCategory}, ids \in SideBySideItemIds}}
         [] workload = "questions" ->
              {<<r, reorder_questions(r)>> :
                 r \in {Request("reorder_questions", caller, 0, FALSE, body(ids), "free") :
                          ids \in SideBySideQuestionIds}}
         [] OTHER -> {}

AutocommitCalls ==
    LET caller == <<"staff", 1>>
    IN CASE workload = "categories" ->
              UNION {{<<r, category_move_view(r, list)>> : list \in CategoryLists(r)} :
                 r \in {Request(IF up THEN "category_move_up" ELSE "category_move_down",
                                caller, c, up, NoBody, "free") :
                          c \in CategoryIds, up \in BOOLEAN}}
         [] workload = "products" ->
              UNION {{<<r, item_move_view(r, list)>> : list \in ItemLists(r)} :
                 r \in {Request(IF up THEN "item_move_up" ELSE "item_move_down",
                                caller, i, up, NoBody, "free") :
                          i \in ItemIds, up \in BOOLEAN}}
         [] OTHER -> {}

\* the row a save writes, as the view holds it
PlannedRow(o, sv) ==
    CASE sv.model = "ItemCategory" -> o.categories[sv.pk]
      [] sv.model = "Item" -> o.items[sv.pk]
      [] sv.model = "Question" -> o.questions[sv.pk]
      [] sv.model = "EventSettings" -> o.system_question_order[sv.pk]

\* the saves of a view in the order of its loop: by the position they write
\* (the move views enumerate the list), the settings write last
SaveRank(o, sv) == IF sv.model = "EventSettings" THEN MaxIds + 1 ELSE PlannedRow(o, sv).position
\* audit records follow the save of their row
LogsOf(o, sv) ==
    {lg \in o.logged : lg.pk = sv.pk /\ (lg.model = sv.model \/
                                        (lg.model = "Event" /\ sv.model = "EventSettings"))}
StepsOf(o) ==
    LET saves == o.saved
        n == Cardinality(saves)
        ordered == CHOOSE f \in [1..n -> saves] :
                      /\ \A a, b \in 1..n : a # b => f[a] # f[b]
                      /\ \A a, b \in 1..n : a < b =>
                            \/ SaveRank(o, f[a]) < SaveRank(o, f[b])
                            \/ SaveRank(o, f[a]) = SaveRank(o, f[b]) /\ f[a].pk <= f[b].pk
        logs(sv) == LET L == LogsOf(o, sv) IN
                    IF L = {} THEN <<>> ELSE <<[kind |-> "log", sv |-> sv, lg |-> CHOOSE lg \in L : TRUE]>>
        RECURSIVE steps(_)
        steps(k) == IF k > n THEN <<>>
                    ELSE <<[kind |-> "save", sv |-> ordered[k], lg |-> NoLog]>>
                         \o logs(ordered[k]) \o steps(k + 1)
    IN steps(1)

Started(pc, r, o) ==
    [pc |-> pc, r |-> r, read |-> db, plan |-> o, steps |-> StepsOf(o), at |-> 0,
     seen |-> {commits[k] : k \in 1..Len(commits)}]

\* the saves and audit records among the first n steps of a call
SavesUpTo(c, n) == {c.steps[k].sv : k \in {j \in 1..n : c.steps[j].kind = "save"}}
LogsUpTo(c, n) == {c.steps[k].lg : k \in {j \in 1..n : c.steps[j].kind = "log"}}

\* an UPDATE waits while another transaction holds an uncommitted write of
\* the same row
RowFree(w, sv) ==
    \A v \in Workers \ {w} :
        calls[v].pc = "tx" =>
            \A h \in SavesUpTo(calls[v], calls[v].at) : h.model # sv.model \/ h.pk # sv.pk

\* save(): all columns of the instance, or those of update_fields
Written(field, fields) ==
    \/ "*" \in fields
    \/ field \in fields
    \/ field = "category" /\ "category_id" \in fields
WriteRow(stored, held, fields) ==
    [f \in DOMAIN stored |-> IF Written(f, fields) THEN held[f] ELSE stored[f]]
SavesFor(S, model, pk) == {sv \in S : sv.model = model /\ sv.pk = pk}
\* a commit that writes every row as the transaction holds it
WriteTable_all(table, planned, S, model) == planned
WriteTable(table, planned, S, model) ==
    [pk \in DOMAIN table |->
        IF SavesFor(S, model, pk) = {} THEN table[pk]
        ELSE WriteRow(table[pk], planned[pk],
                      UNION {sv.update_fields : sv \in SavesFor(S, model, pk)})]
\* the stored rows once the saves S of the outcome o are committed
Committed(o, S) ==
    <<WriteTable(categories, o.categories, S, "ItemCategory"),
      WriteTable(items, o.items, S, "Item"),
      WriteTable(questions, o.questions, S, "Question"),
      [e \in Events |-> IF SavesFor(S, "EventSettings", e) = {}
                        THEN system_question_order[e]
                        ELSE o.system_question_order[e]],
      quotas>>
\* the rows t become the stored rows
Store(t) ==
    /\ categories' = t[1]
    /\ items' = t[2]
    /\ questions' = t[3]
    /\ system_question_order' = t[4]
    /\ quotas' = t[5]
Audited(w, L) == {[worker |-> w, record |-> lg] : lg \in L}

\* @transaction.atomic: the view starts and reads its rows
TxBegin(w) ==
    /\ calls[w].pc = "idle"
    /\ \E c \in AtomicCalls :
          calls' = [calls EXCEPT ![w] = Started("tx", c[1], c[2])]
    /\ UNCHANGED <<db, workload, settings, sequential, audit, commits>>

\* one save() or log_action() inside the transaction: held back until commit
TxWrite(w) ==
    /\ calls[w].pc = "tx"
    /\ calls[w].at < Len(calls[w].steps)
    /\ LET step == calls[w].steps[calls[w].at + 1]
       IN step.kind = "save" => RowFree(w, step.sv)
    /\ calls' = [calls EXCEPT ![w].at = @ + 1]
    /\ UNCHANGED <<db, workload, settings, sequential, audit, commits>>

\* the view returns its response: everything it wrote is committed at once
TxCommit(w) ==
    /\ calls[w].pc = "tx"
    /\ calls[w].plan.status = "200"
    /\ calls[w].at = Len(calls[w].steps)
    /\ Store(Committed(calls[w].plan, SavesUpTo(calls[w], calls[w].at)))
    /\ audit' = audit \cup Audited(w, LogsUpTo(calls[w], calls[w].at))
    /\ commits' = Append(commits, w)
    /\ calls' = [calls EXCEPT ![w].pc = "done"]
    /\ UNCHANGED <<workload, settings, sequential>>

\* the view raises (Http404, ValueError, a database error, the worker
\* dies): everything it wrote is rolled back
TxAbort(w) ==
    /\ calls[w].pc = "tx"
    /\ calls' = [calls EXCEPT ![w].pc = "failed"]
    /\ UNCHANGED <<db, workload, settings, sequential, audit, commits>>

\* item_move_up / _down, category_move_up / _down: no transaction.atomic
MoveBegin(w) ==
    /\ calls[w].pc = "idle"
    /\ \E c \in AutocommitCalls :
          calls' = [calls EXCEPT ![w] = Started("auto", c[1], c[2])]
    /\ UNCHANGED <<db, workload, settings, sequential, audit, commits>>

\* one save() or log_action() of the loop of item_move / category_move:
\* committed by itself
MoveWrite(w) ==
    /\ calls[w].pc = "auto"
    /\ calls[w].at < Len(calls[w].steps)
    /\ LET step == calls[w].steps[calls[w].at + 1]
       IN IF step.kind = "save"
          THEN /\ RowFree(w, step.sv)
               /\ Store(Committed(calls[w].plan, {step.sv}))
               /\ UNCHANGED audit
          ELSE /\ audit' = audit \cup Audited(w, {step.lg})
               /\ UNCHANGED db
    /\ calls' = [calls EXCEPT ![w].at = @ + 1]
    /\ UNCHANGED <<workload, settings, sequential, commits>>

\* the move view redirects
MoveFinish(w) ==
    /\ calls[w].pc = "auto"
    /\ calls[w].at = Len(calls[w].steps)
    /\ calls' = [calls EXCEPT ![w].pc = "done"]
    /\ UNCHANGED <<db, workload, settings, sequential, audit, commits>>

\* the move view fails inside its loop (a database error, the worker dies):
\* nothing is rolled back
MoveFail(w) ==
    /\ calls[w].pc = "auto"
    /\ calls[w].at < Len(calls[w].steps)
    /\ calls' = [calls EXCEPT ![w].pc = "failed"]
    /\ UNCHANGED <<db, workload, settings, sequential, audit, commits>>

\* ------------------------------------------------------------ initial state

\* the catalogue after set-up: rows were created one after the other, each
\* appended to the end of its scope.  The workload chooses what event 1 holds:
\* categories only, products in one category, or questions.
\* positions with gaps, as deleted rows leave them
SparsePositions == <<1, 2, 4>>

InitCategories(w) ==
    [c \in CategoryIds |->
        IF CategoryEvent(c) = 2 THEN [live |-> TRUE, event |-> 2, position |-> 0]
        ELSE IF w = "sparse"
             THEN [live |-> TRUE, event |-> 1, position |-> SparsePositions[c]]
        ELSE IF w = "categories" \/ (w \in {"products", "removal", "forms"} /\ c = FirstCategory)
             THEN [live |-> TRUE, event |-> 1, position |-> c - 1]
        ELSE DeadCategory(c)]

InitItems(w) ==
    [i \in ItemIds |->
        IF ItemEvent(i) = 2
        THEN [live |-> TRUE, event |-> 2, category |-> OtherCategory, position |-> 0,
              active |-> TRUE, meta |-> FALSE]
        ELSE IF w = "sparse"
             THEN [live |-> TRUE, event |-> 1, category |-> FirstCategory,
                   position |-> SparsePositions[i], active |-> TRUE, meta |-> FALSE]
        ELSE IF w \in {"products", "removal", "forms"}
             THEN [live |-> TRUE, event |-> 1, category |-> FirstCategory,
                   position |-> i - 1, active |-> TRUE, meta |-> FALSE]
        ELSE DeadItem(i)]

InitQuestions(w) ==
    [q \in QuestionIds |->
        IF QuestionEvent(q) = 2
        THEN [live |-> TRUE, event |-> 2, position |-> 0, required |-> FALSE]
        ELSE IF w \in {"questions", "forms"}
             THEN [live |-> TRUE, event |-> 1, position |-> q - 1, required |-> FALSE]
        ELSE DeadQuestion(q)]

\* the system questions the organizer asks for (set in the event settings,
\* which no view of this file writes)
SettingsChoices ==
    {{},
     {"attendee_company_asked"},
     {"attendee_names_asked", "attendee_names_required", "attendee_addresses_asked"},
     {"attendee_emails_asked", "attendee_company_asked", "attendee_company_required"}}
InitSettings(w) ==
    {[e \in Events |-> IF e = 1 /\ w = "questions" THEN chosen ELSE {}] :
        chosen \in SettingsChoices}

\* quotas that closed when they sold out
InitQuotas(w) ==
    [q \in QuotaIds |->
        IF QuotaEvent(q) = 2 \/ w = "quotas"
        THEN [live |-> TRUE, event |-> QuotaEvent(q), closed |-> TRUE,
              close_when_sold_out |-> TRUE]
        ELSE [live |-> FALSE, event |-> QuotaEvent(q), closed |-> FALSE,
              close_when_sold_out |-> FALSE]]

Init ==
    /\ workload \in {"categories", "products", "removal", "sparse", "questions", "forms",
                     "quotas"}
    /\ categories = InitCategories(workload)
    /\ items = InitItems(workload)
    /\ questions = InitQuestions(workload)
    /\ system_question_order = [e \in Events |-> [s \in {} |-> 0]]
    /\ quotas = InitQuotas(workload)
    /\ req = NoRequest
    /\ resp = "none"
    /\ saved = {}
    /\ logged = {}
    /\ content = ""
    /\ context = <<>>
    /\ flash = {}
    /\ dispatched = {}
    /\ settings \in InitSettings(workload)
    /\ calls = [w \in Workers |-> NoCall]
    /\ audit = {}
    /\ commits = <<>>

Next ==
    \/ CategoryMove
    \/ ReorderCategories
    \/ CategoryDelete
    \/ ItemMove
    \/ ReorderItems
    \/ ItemDelete
    \/ ItemUpdate
    \/ QuestionUpdate
    \/ ReorderQuestions
    \/ QuestionListGet
    \/ QuotaPost
    \/ Respond

Spec == Init /\ [][Next]_vars

\* requests side by side on the ordered lists
InitConcurrent == Init /\ workload \in {"categories", "products", "questions"}

NextConcurrent ==
    \E w \in Workers :
        \/ TxBegin(w)
        \/ TxWrite(w)
        \/ TxCommit(w)
        \/ TxAbort(w)
        \/ MoveBegin(w)
        \/ MoveWrite(w)
        \/ MoveFinish(w)
        \/ MoveFail(w)

SpecConcurrent == InitConcurrent /\ [][NextConcurrent]_vars

\* =================================================================== claims

Permitted(r) == has_event_permission(r.actor, r.event, "can_change_items")
ReorderOps == {"reorder_items", "reorder_categories", "reorder_questions"}
\* the views that write (QuestionList only reads)
MutatingOps == ReorderOps \cup {"item_move_up", "item_move_down", "category_move_up",
                                "category_move_down", "category_delete", "item_delete",
                                "item_update", "question_update", "quota_post"}
Positions(S, rows) == {rows[x].position : x \in S}
\* the positions of S are exactly 0..n-1, each once
Dense(S, rows) ==
    /\ Positions(S, rows) = 0..(Cardinality(S) - 1)
    /\ \A x, y \in S : x # y => rows[x].position # rows[y].position
\* the pks of the rows of a model among a set of saves or audit records
Pks(records, model) == {x.pk : x \in {y \in records : y.model = model}}
Records(records, model) == {y \in records : y.model = model}

\* C1: after a successful reorder_categories request every category of the
\* event is at the index of its id in ids, and the positions of the event's
\* categories are exactly 0..n-1.
C1_ReorderCategoriesPermutation ==
    (resp = "200" /\ req.op = "reorder_categories") =>
        LET cs == EventCategories(categories, req.event)
        IN /\ \A c \in cs : /\ Contains(req.ids, Str[c])
                            /\ categories[c].position = index(req.ids, Str[c])
           /\ Dense(cs, categories)

\* a reorder of three categories that moved rows
C1_Witness ==
    /\ resp = "200"
    /\ req.op = "reorder_categories"
    /\ Cardinality(EventCategories(categories, req.event)) = 3
    /\ Cardinality(saved) >= 2

\* C2: in the three reorder views the rows saved and the rows with a
\* 'reordered' audit record are exactly the submitted rows whose new position
\* (for items: or target category) differs from the stored one; a row whose
\* values are already equal is neither saved nor logged.
C2_Expected ==
    LET ids == req'.ids
        e == req'.event
    IN CASE req'.op = "reorder_categories" ->
              {c \in EventCategories(categories, e) \cap DigitPks(ids) :
                  index(ids, Str[c]) # categories[c].position}
         [] req'.op = "reorder_questions" ->
              {q \in EventQuestions(questions, e) \cap DigitPks(ids) :
                  index(ids, Str[q]) # questions[q].position}
         [] req'.op = "reorder_items" ->
              {i \in EventItems(items, e) \cap DigitPks(ids) :
                  index(ids, Str[i]) # items[i].position \/ req'.pk # items[i].category}
C2_Model ==
    CASE req'.op = "reorder_categories" -> "ItemCategory"
      [] req'.op = "reorder_questions" -> "Question"
      [] req'.op = "reorder_items" -> "Item"
C2_WriteAvoidance ==
    [][(resp' = "200" /\ req'.op \in ReorderOps) =>
          /\ Pks(saved', C2_Model) = C2_Expected
          /\ Pks(logged', C2_Model) = C2_Expected
          /\ Cardinality(Records(saved', C2_Model)) = Cardinality(C2_Expected)
          /\ Cardinality(Records(logged', C2_Model)) = Cardinality(C2_Expected)]_vars

\* a reorder of three items of which one stays where it is
C2_Witness ==
    /\ resp = "200"
    /\ req.op = "reorder_items"
    /\ Len(req.ids) = 3
    /\ Cardinality(Pks(saved, "Item")) = 2
    /\ Cardinality(Pks(logged, "Item")) = 2

\* whether a string of ids names a row of the event (for questions: or one of
\* the system questions), in the state before the request
Resolves(t, r) ==
    CASE r.op = "reorder_items" ->
           isdigit(t) /\ DigitValue[t] \in EventItems(items, r.event)
      [] r.op = "reorder_categories" ->
           isdigit(t) /\ DigitValue[t] \in EventCategories(categories, r.event)
      [] r.op = "reorder_questions" ->
           \/ isdigit(t) /\ DigitValue[t] \in EventQuestions(questions, r.event)
           \/ t \in SystemKeySet
\* a reorder request of a permitted actor with a well-formed body
ReorderRequest(r) == r.op \in ReorderOps /\ Permitted(r) /\ r.body = "ids"

\* C3: a reorder request with an id that names no entity of the event fails
\* with a not-found error and leaves positions, categories, the system
\* question order and the audit log as they were.
C3_InvalidIdFails ==
    [][(ReorderRequest(req') /\ \E k \in 1..Len(req'.ids) : ~Resolves(req'.ids[k], req'))
          => (resp' = "404" /\ db' = db /\ logged' = {})]_vars

\* the pks the digit strings of ids name, one per occurrence
SubmittedPks(ids) == [k \in 1..Len(DigitOnly(ids)) |-> DigitValue[DigitOnly(ids)[k]]]
Repeats(ids) ==
    \E j, k \in 1..Len(SubmittedPks(ids)) : j # k /\ SubmittedPks(ids)[j] = SubmittedPks(ids)[k]
C4_Universe(r) ==
    IF r.op = "reorder_categories" THEN EventCategories(categories, r.event)
    ELSE EventQuestions(questions, r.event)
Omits(r) == \E x \in C4_Universe(r) : x \notin DigitPks(r.ids)

\* C4: reorder_categories and reorder_questions succeed only if the submitted
\* persisted ids hold every category (question) of the event exactly once; a
\* request that omits a row or repeats an id fails with a not-found error,
\* changes no position and writes no audit record.
C4_StrictSelection ==
    [][(ReorderRequest(req') /\ req'.op \in {"reorder_categories", "reorder_questions"}) =>
          /\ (Omits(req') \/ Repeats(req'.ids))
                => (resp' = "404" /\ db' = db /\ logged' = {} /\ saved' = {})
          /\ resp' = "200" => (~Omits(req') /\ ~Repeats(req'.ids))]_vars

\* a request that leaves out one of three categories was refused
C4_Witness ==
    /\ resp = "404"
    /\ req.op = "reorder_categories"
    /\ Permitted(req)
    /\ Len(req.ids) = 2
    /\ DigitPks(req.ids) \subseteq EventCategories(categories, req.event)
    /\ Cardinality(DigitPks(req.ids)) = 2
    /\ Cardinality(EventCategories(categories, req.event)) = 3

\* C5: every mutating view called by an actor without can_change_items
\* answers with permission denied, writes nothing and logs nothing.
C5_PermissionGate ==
    [][(resp' # "none" /\ req'.op \in MutatingOps /\ ~Permitted(req'))
          => (resp' = "403" /\ db' = db /\ saved' = {} /\ logged' = {})]_vars

\* a guest asked to move an existing item and was refused
C5_Witness ==
    /\ resp = "403"
    /\ req.actor = "guest"
    /\ req.op = "item_move_down"
    /\ req.pk \in EventItems(items, req.event)
    /\ Cardinality(CategoryItems(items, req.event, items[req.pk].category)) = 3
    /\ items[req.pk].position = 0

\* ------------------------------------------------------ requests side by side

\* C6: for every reconciliation entry point, the position writes and audit
\* records of one call commit together or not at all: whenever the committed
\* rows or audit records change, they change by the complete set of saves
\* and audit records of one running call.
C6_AllOrNothing ==
    [][(db' # db \/ audit' # audit)
          => \E w \in Workers :
                /\ calls[w].pc \in {"tx", "auto"}
                /\ db' = Committed(calls[w].plan, calls[w].plan.saved)
                /\ audit' = audit \cup Audited(w, calls[w].plan.logged)]_vars

\* the rows a reorder request lists
Listed(r) ==
    CASE r.op = "reorder_categories" ->
            {<<"ItemCategory", c>> : c \in EventCategories(categories, r.event) \cap DigitPks(r.ids)}
      [] r.op = "reorder_items" ->
            {<<"Item", i>> : i \in EventItems(items, r.event) \cap DigitPks(r.ids)}
      [] r.op = "reorder_questions" ->
            {<<"Question", q>> : q \in EventQuestions(questions, r.event) \cap DigitPks(r.ids)}
      [] OTHER -> {}
\* what a request asks for a row, and what the tables t hold for it
Asked(r, row) ==
    <<index(r.ids, Str[row[2]]), IF row[1] = "Item" THEN r.pk ELSE NoCategory>>
Held(t, row) ==
    CASE row[1] = "ItemCategory" -> <<t[1][row[2]].position, NoCategory>>
      [] row[1] = "Item" -> <<t[2][row[2]].position, t[2][row[2]].category>>
      [] row[1] = "Question" -> <<t[3][row[2]].position, NoCategory>>
SameScope(a, b) ==
    /\ a.op = b.op
    /\ a.event = b.event
    /\ Listed(a) = Listed(b)
    /\ a.op = "reorder_items" => a.pk = b.pk
\* two valid complete reorder requests for one scope have both committed, and
\* each had read its rows before the other committed
Raced ==
    /\ Len(commits) = 2
    /\ \A w \in Workers :
          /\ calls[w].r.op \in ReorderOps
          /\ calls[w].plan.status = "200"
          /\ calls[w].seen = {}
    /\ SameScope(calls[1].r, calls[2].r)
    /\ Listed(calls[1].r) # {}
SettingsOfLast ==
    LET last == calls[commits[2]].r
    IN last.op = "reorder_questions" =>
          system_question_order[last.event] = SystemOrder(last.ids)

\* C7 as stated: after two racing reorders of one scope, the stored
\* positions are the order submitted by the request that committed last.
C7_LastCommitWins ==
    Raced =>
       /\ \A row \in Listed(calls[commits[2]].r) :
             Held(db, row) = Asked(calls[commits[2]].r, row)
       /\ SettingsOfLast

\* the request of call c found the row where it did not ask for it, and
\* saved it
Moves(c, row) == Asked(c.r, row) # Held(c.read, row)

\* C7: after two racing reorders of one scope, every row holds what was
\* asked for it by the last-committed request that found it elsewhere (a
\* request saves no row it read at the place it asks for); a row neither
\* request saved holds what they read; the order of the system fields is
\* that of the request that committed last.
C7_LastSaveWins ==
    Raced =>
       LET first == calls[commits[1]]
           last == calls[commits[2]]
       IN /\ \A row \in Listed(last.r) :
                Held(db, row) = IF Moves(last, row) THEN Asked(last.r, row)
                                ELSE IF Moves(first, row) THEN Asked(first.r, row)
                                ELSE Held(last.read, row)
          /\ SettingsOfLast

\* two racing reorders of the categories have committed, and the request
\* that committed last left a row alone that the first one had moved
C7_Witness ==
    /\ Raced
    /\ calls[1].r.op = "reorder_categories"
    /\ \E row \in Listed(calls[commits[2]].r) :
          /\ ~Moves(calls[commits[2]], row)
          /\ Moves(calls[commits[1]], row)
          /\ Held(db, row) = Asked(calls[commits[1]].r, row)

\* ------------------------------------------------------------------- moves

MoveOps == {"item_move_up", "item_move_down", "category_move_up", "category_move_down"}
ItemMoveOps == {"item_move_up", "item_move_down"}
\* the rows a move request works on, and its scope, in the state before it
MoveRows(r) == IF r.op \in ItemMoveOps THEN items ELSE categories
MoveRowsAfter(r) == IF r.op \in ItemMoveOps THEN items' ELSE categories'
MoveModel(r) == IF r.op \in ItemMoveOps THEN "Item" ELSE "ItemCategory"
MoveExists(r) ==
    IF r.op \in ItemMoveOps THEN r.pk \in EventItems(items, r.event)
    ELSE r.pk \in EventCategories(categories, r.event)
MoveScope(r) ==
    IF r.op \in ItemMoveOps THEN CategoryItems(items, r.event, items[r.pk].category)
    ELSE EventCategories(categories, r.event)
Distinct(S, rows) == \A x, y \in S : x # y => rows[x].position # rows[y].position
\* a permitted move request for an existing row
MoveRequest(r) == r.op \in MoveOps /\ Permitted(r) /\ MoveExists(r)
\* the row is the first (last) of its scope in position order
IsFirst(r) == \A x \in MoveScope(r) \ {r.pk} : MoveRows(r)[r.pk].position < MoveRows(r)[x].position
IsLast(r) == \A x \in MoveScope(r) \ {r.pk} : MoveRows(r)[x].position < MoveRows(r)[r.pk].position
AtBoundary(r) == (r.up /\ IsFirst(r)) \/ (~r.up /\ IsLast(r))
\* the row next to r.pk in the direction of the move (positions distinct)
Neighbour(r) ==
    LET rows == MoveRows(r)
        S == MoveScope(r)
        side == {x \in S : IF r.up THEN rows[x].position < rows[r.pk].position
                           ELSE rows[x].position > rows[r.pk].position}
    IN CHOOSE x \in side : \A y \in side :
          IF r.up THEN rows[y].position <= rows[x].position
          ELSE rows[y].position >= rows[x].position

\* C8 as claimed: in every scope, moving the first row up or the last row down
\* changes no position and adds no audit record.
C8_BoundaryNoOp_AnyScope ==
    [][(MoveRequest(req') /\ AtBoundary(req')) => (db' = db /\ logged' = {})]_vars

\* C8 as amended: in a scope whose positions are exactly 0..n-1, moving the
\* first row up or the last row down changes no position, saves no row and
\* adds no audit record.
C8_BoundaryNoOp ==
    [][(MoveRequest(req') /\ AtBoundary(req') /\ Dense(MoveScope(req'), MoveRows(req')))
          => (resp' = "302" /\ db' = db /\ saved' = {} /\ logged' = {})]_vars

\* the first of three categories was moved up and nothing was written
C8_Witness ==
    /\ resp = "302"
    /\ req.op = "category_move_up"
    /\ Permitted(req)
    /\ Cardinality(EventCategories(categories, req.event)) = 3
    /\ req.pk \in EventCategories(categories, req.event)
    /\ categories[req.pk].position = 0
    /\ Dense(EventCategories(categories, req.event), categories)
    /\ saved = {} /\ logged = {}

\* C9 as claimed: a move of a row that is not at the boundary (positions of the
\* scope pairwise distinct) puts it on the other side of its neighbour; the
\* two are the rows saved and logged, and every other row of the scope keeps
\* its position.
C9_Swap_AnyScope ==
    [][(MoveRequest(req') /\ Distinct(MoveScope(req'), MoveRows(req')) /\ ~AtBoundary(req'))
          => LET r == req'
                 nb == Neighbour(r)
                 after == MoveRowsAfter(r)
             IN /\ (after[r.pk].position < after[nb].position) = r.up
                /\ Pks(saved', MoveModel(r)) = {r.pk, nb}
                /\ Pks(logged', MoveModel(r)) = {r.pk, nb}
                /\ Cardinality(saved') = 2 /\ Cardinality(logged') = 2
                /\ \A x \in MoveScope(r) \ {r.pk, nb} :
                      after[x].position = MoveRows(r)[x].position]_vars

\* C9 as amended: in a scope whose positions are exactly 0..n-1, a move of a
\* row that is not at the boundary exchanges its position with that of its
\* neighbour; exactly these two rows are saved and logged, every other row of
\* the scope keeps its position and gets no audit record.
C9_Swap ==
    [][(MoveRequest(req') /\ Dense(MoveScope(req'), MoveRows(req')) /\ ~AtBoundary(req'))
          => LET r == req'
                 nb == Neighbour(r)
                 after == MoveRowsAfter(r)
             IN /\ resp' = "302"
                /\ after[r.pk].position = MoveRows(r)[nb].position
                /\ after[nb].position = MoveRows(r)[r.pk].position
                /\ after[r.pk].position = MoveRows(r)[r.pk].position + (IF r.up THEN -1 ELSE 1)
                /\ Pks(saved', MoveModel(r)) = {r.pk, nb}
                /\ Pks(logged', MoveModel(r)) = {r.pk, nb}
                /\ Cardinality(saved') = 2 /\ Cardinality(logged') = 2
                /\ \A x \in MoveScope(r) \ {r.pk, nb} :
                      after[x].position = MoveRows(r)[x].position]_vars

\* an item of a category of three was moved down from the top
C9_Witness ==
    /\ resp = "302"
    /\ req.op = "item_move_down"
    /\ req.pk \in EventItems(items, req.event)
    /\ Cardinality(CategoryItems(items, req.event, items[req.pk].category)) = 3
    /\ Dense(CategoryItems(items, req.event, items[req.pk].category), items)
    /\ items[req.pk].position = 1
    /\ Pks(saved, "Item") \ {req.pk} # {}
    /\ Cardinality(logged) = 2

\* ------------------------------------------------------------ dense scopes

\* every scope (the categories and the questions of an event, the items of a
\* category or without category of an event) has the positions 0..n-1
AllScopesDense ==
    \A e \in Events :
      /\ Dense(EventCategories(categories, e), categories)
      /\ Dense(EventQuestions(questions, e), questions)
      /\ \A cat \in CategoryIds \cup {NoCategory} : Dense(CategoryItems(items, e, cat), items)

RenumbersScope(r) ==
    \/ r.op \in MoveOps
    \/ r.op = "reorder_categories"
    \/ r.op = "reorder_questions" /\ \A k \in 1..Len(r.ids) : isdigit(r.ids[k])
    \/ /\ r.op = "reorder_items"
       /\ EventItems(items, r.event) \cap DigitPks(r.ids) = CategoryItems(items, r.event, r.pk)

WithoutIds == {"not_utf8", "not_json", "no_ids", "not_object"}
BadRequestText == "expected JSON: {ids:[]}"

\* C11: a reorder request whose body is not well-formed JSON, or is JSON
\* without an ids field, is answered with 400 and the body
\* "expected JSON: {ids:[]}", and nothing is changed or logged.
C11_MalformedBody ==
    [][(req'.op \in ReorderOps /\ Permitted(req') /\ req'.body \in WithoutIds)
          => /\ resp' = "400"
             /\ content' = BadRequestText
             /\ db' = db /\ saved' = {} /\ logged' = {}]_vars

\* C12: every reorder request ends in an empty success response, the 400
\* response, a not-found error with a message, or permission denied; no
\* input ends in an unhandled exception.
C12_NoUnhandledException ==
    [][(req'.op \in ReorderOps /\ resp' # "none")
          => \/ resp' = "200" /\ content' = ""
             \/ resp' = "400" /\ content' = BadRequestText
             \/ resp' = "404" /\ content' # ""
             \/ resp' = "403"]_vars

\* ------------------------------------------------------------- questions

\* the entry is the id of a question of the event or a system question key
KnownEntry(t, r) ==
    \/ t \in SystemKeySet
    \/ \E q \in QuestionIds : questions[q].live /\ questions[q].event = r.event /\ t = Str[q]

\* C16: reorder_questions fails the whole request, changing no question
\* position, no settings map and no audit record, when ids holds an entry
\* that is neither the id of a question of the event nor a system key.
C16_UnknownEntryFails ==
    [][(req'.op = "reorder_questions" /\ Permitted(req') /\ req'.body = "ids"
        /\ \E k \in 1..Len(req'.ids) : ~KnownEntry(req'.ids[k], req'))
          => (resp' \notin {"none", "200"} /\ db' = db /\ saved' = {} /\ logged' = {})]_vars

\* the seven system question keys
SevenKeys == {"attendee_name_parts", "attendee_email", "company", "street", "zipcode",
              "city", "country"}
\* the index (from 0) of the first occurrence of t in ids, -1 when absent
FirstIndex(ids, t) ==
    IF \E k \in 1..Len(ids) : ids[k] = t
    THEN (CHOOSE k \in 1..Len(ids) : ids[k] = t /\ \A j \in 1..(k - 1) : ids[j] # t) - 1
    ELSE -1
SettingsRecords(L) == {lg \in L : lg.action = "pretix.event.settings"}
ReorderedQuestions(r, status) == r.op = "reorder_questions" /\ status = "200"

\* C13: after a successful reorder_questions the stored system_question_order
\* has exactly the seven keys, each with the index of its first occurrence in
\* ids or -1, and the request adds exactly one 'pretix.event.settings' audit
\* record, which carries that map.
C13_SystemOrderStored ==
    [][ReorderedQuestions(req', resp')
          => LET stored == system_question_order'[req'.event]
             IN /\ DOMAIN stored = SevenKeys
                /\ \A s \in SevenKeys : stored[s] = FirstIndex(req'.ids, s)
                /\ Cardinality(SettingsRecords(logged')) = 1
                /\ \A lg \in SettingsRecords(logged') :
                      /\ lg.model = "Event" /\ lg.pk = req'.event /\ lg.nth = 1
                      /\ lg.data = [system_question_order |-> stored]
                /\ \E sv \in saved' : sv.model = "EventSettings" /\ sv.pk = req'.event]_vars

\* a reorder of two questions after the e-mail field was answered: the map
\* holds 0 for attendee_email and -1 for company, and one record was written
C13_Witness ==
    /\ ReorderedQuestions(req, resp)
    /\ req.ids = <<"attendee_email", "1", "2">>
    /\ system_question_order[req.event]["attendee_email"] = 0
    /\ system_question_order[req.event]["company"] = -1
    /\ Cardinality(SettingsRecords(logged)) = 1

\* C14: after a successful reorder_questions the position of every question
\* of the event is the index of its id in the whole of ids, system keys
\* counted.
C14_PositionIsIndexInIds ==
    [][ReorderedQuestions(req', resp')
          => \A q \in QuestionIds :
                (questions'[q].live /\ questions'[q].event = req'.event)
                   => questions'[q].position = FirstIndex(req'.ids, Str[q])]_vars

\* question 1 was sent after two system keys and is stored at position 2
C14_Witness ==
    /\ ReorderedQuestions(req, resp)
    /\ req.ids = <<"company", "attendee_email", "1">> \/ req.ids = <<"company", "2", "1">>
    /\ questions[1].live /\ questions[1].event = req.event
    /\ questions[1].position = 2

\* the questions of event e in the rows qs
QuestionsOf(qs, e) == {q \in QuestionIds : qs[q].live /\ qs[q].event = e}
\* the positions of the questions S in the rows qs are exactly 0..n-1
Contiguous(S, qs) == {qs[q].position : q \in S} = 0..(Cardinality(S) - 1)
\* the questions keep the relative order of their ids in the request
OrderOfRequest(S, qs, ids) ==
    \A a, b \in S : (qs[a].position < qs[b].position)
                       <=> (FirstIndex(ids, Str[a]) < FirstIndex(ids, Str[b]))

\* C15 as stated: after a successful reorder_questions the positions of the
\* questions of the event are 0..n-1 in the order of the request, whatever
\* system keys the request holds.
C15_ContiguousWhateverKeys ==
    [][ReorderedQuestions(req', resp')
          => /\ Contiguous(QuestionsOf(questions', req'.event), questions')
             /\ OrderOfRequest(QuestionsOf(questions', req'.event), questions', req'.ids)]_vars

\* the question ids are the first entries of ids
QuestionsFirst(ids, n) == \A k \in 1..Len(ids) : isdigit(ids[k]) <=> k <= n

\* C15: after a successful reorder_questions the questions of the event keep
\* the relative order of the request; their positions are 0..n-1 exactly when
\* the question ids come before every other entry of ids, otherwise the
\* entries before and between them leave gaps.
C15_ContiguousWhenQuestionsFirst ==
    [][ReorderedQuestions(req', resp')
          => LET S == QuestionsOf(questions', req'.event)
             IN /\ OrderOfRequest(S, questions', req'.ids)
                /\ Contiguous(S, questions') <=> QuestionsFirst(req'.ids, Cardinality(S))]_vars

\* two questions were reordered behind a system key and are stored at 1 and 2
C15_Witness ==
    /\ ReorderedQuestions(req, resp)
    /\ req.ids = <<"company", "2", "1">>
    /\ questions[2].position = 1
    /\ questions[1].position = 2
    /\ ~Contiguous(QuestionsOf(questions, req.event), questions)

\* ----------------------------------------------------------------- items

ReorderedItems(r, status) == r.op = "reorder_items" /\ status = "200"
Named(ids, i) == \E k \in 1..Len(ids) : ids[k] = Str[i]

\* C17: after a successful reorder_items with ids and target category c,
\* every item named in ids has the index of its id in ids as position and c
\* as category (no category when the URL parameter is 0).
C17_ItemsPlaced ==
    [][ReorderedItems(req', resp')
          => \A i \in ItemIds :
                (Named(req'.ids, i) /\ items'[i].live /\ items'[i].event = req'.event)
                   => /\ items'[i].position = FirstIndex(req'.ids, Str[i])
                      /\ items'[i].category = req'.pk]_vars

\* items 2 and 1 of the first category were sent, in this order, to
\* "no category"
C17_Witness ==
    /\ ReorderedItems(req, resp)
    /\ req.ids = <<"2", "1">>
    /\ req.pk = NoCategory
    /\ items[2].position = 0 /\ items[2].category = NoCategory
    /\ items[1].position = 1 /\ items[1].category = NoCategory
    /\ Pks(saved, "Item") = {1, 2}

\* C18: for each item reorder_items changes there is exactly one save, of
\* position and category together, and exactly one
\* 'pretix.event.item.reordered' audit record, whose payload holds the new
\* position index and the new category id (none for "no category").
C18_OneSaveOneRecord ==
    [][ReorderedItems(req', resp')
          => \A i \in ItemIds :
                items'[i] # items[i]
                   => /\ Cardinality({sv \in saved' : sv.model = "Item" /\ sv.pk = i}) = 1
                      /\ \A sv \in saved' :
                            (sv.model = "Item" /\ sv.pk = i)
                               => sv.update_fields = {"position", "category_id"}
                      /\ Cardinality({lg \in logged' : lg.model = "Item" /\ lg.pk = i}) = 1
                      /\ \A lg \in logged' :
                            (lg.model = "Item" /\ lg.pk = i)
                               => /\ lg.action = "pretix.event.item.reordered"
                                  /\ lg.nth = 1
                                  /\ lg.data = [position |-> IntValue(items'[i].position),
                                                category |-> items'[i].category]]_vars

\* C19: reorder_items leaves the position and category of every item of the
\* event that is not named in ids, and of every item of another event, as
\* they were.
C19_OthersUntouched ==
    [][(req'.op = "reorder_items" /\ resp' # "none")
          => \A i \in ItemIds :
                (items[i].event # req'.event \/ ~Named(req'.ids, i))
                   => /\ items'[i] = items[i]
                      /\ \A sv \in saved' : sv.model = "Item" => sv.pk # i]_vars

\* item 3 alone was sent to "no category"; items 1 and 2 stay in the first
\* category at 0 and 1, the item of the other event stays where it was
C19_Witness ==
    /\ ReorderedItems(req, resp)
    /\ req.ids = <<"3">>
    /\ req.pk = NoCategory
    /\ items[3].category = NoCategory /\ items[3].position = 0
    /\ items[1].category = FirstCategory /\ items[1].position = 0
    /\ items[2].category = FirstCategory /\ items[2].position = 1
    /\ \E i \in ItemIds : items[i].live /\ items[i].event # req.event

\* ------------------------------------------------------- question display

\* the setting that asks for a system question
AskedSetting(key) ==
    CASE key = "attendee_name_parts" -> "attendee_names_asked"
      [] key = "attendee_email" -> "attendee_emails_asked"
      [] key = "company" -> "attendee_company_asked"
      [] OTHER -> "attendee_addresses_asked"
\* the places of the list that hold the virtual entry of a key, or question q
VirtualAt(list, key) ==
    {k \in 1..Len(list) : list[k].kind = "FakeQuestion" /\ list[k].id = key}
QuestionAt(list, q) ==
    {k \in 1..Len(list) : list[k].kind = "Question" /\ list[k].pk = q}
Listed_questions(r, status) == r.op = "question_list" /\ status = "200"

\* C20: the list built by QuestionList.get_context_data holds a virtual
\* entry for a system key if and only if the setting that asks for it is on
\* (one entry then), with the position system_question_order holds for the
\* key, 0 when the map lacks the key; every question of the event is in the
\* list exactly once, and nothing else is.
C20_DisplayEntries ==
    [][Listed_questions(req', resp')
          => LET e == req'.event
                 order == system_question_order[e]
             IN /\ \A key \in SevenKeys :
                      /\ Cardinality(VirtualAt(context', key))
                            = IF AskedSetting(key) \in settings[e] THEN 1 ELSE 0
                      /\ \A k \in VirtualAt(context', key) :
                            context'[k].position
                               = IF key \in DOMAIN order THEN order[key] ELSE 0
                /\ \A q \in QuestionIds :
                      Cardinality(QuestionAt(context', q))
                         = IF questions[q].live /\ questions[q].event = e THEN 1 ELSE 0
                /\ \A k \in 1..Len(context') :
                      \/ context'[k].kind = "Question" /\ context'[k].pk \in QuestionIds
                      \/ context'[k].kind = "FakeQuestion" /\ context'[k].id \in SevenKeys]_vars

\* the list of an event that asks for names and addresses and never had its
\* questions reordered: five virtual entries at position 0, none for the
\* company, and the two questions
C20_Witness ==
    /\ Listed_questions(req, resp)
    /\ "attendee_addresses_asked" \in settings[req.event]
    /\ "attendee_company_asked" \notin settings[req.event]
    /\ DOMAIN system_question_order[req.event] = {}
    /\ Len(context) = 7
    /\ \E k \in VirtualAt(context, "street") : context[k].position = 0
    /\ VirtualAt(context, "company") = {}
    /\ QuestionAt(context, 1) # {} /\ QuestionAt(context, 2) # {}

\* the list of an event that asks for the company after a reorder put the
\* company behind question 1: the virtual entry holds position 1
C20_WitnessStored ==
    /\ Listed_questions(req, resp)
    /\ settings[req.event] = {"attendee_company_asked"}
    /\ DOMAIN system_question_order[req.event] = SevenKeys
    /\ \E k \in VirtualAt(context, "company") : context[k].position = 1
    /\ VirtualAt(context, "attendee_email") = {}

\* the place of a system key in the fixed order of the keys
KeyRank(key) ==
    CASE key = "attendee_name_parts" -> 1
      [] key = "attendee_email" -> 2
      [] key = "company" -> 3
      [] key = "street" -> 4
      [] key = "zipcode" -> 5
      [] key = "city" -> 6
      [] OTHER -> 7

\* C21: the display list is in ascending position order, virtual and
\* persisted entries alike; among entries of equal position the virtual
\* ones come first, in the fixed order of the keys (persisted questions of
\* equal position follow in the order the queryset had them).
C21_StableAscending ==
    [][Listed_questions(req', resp')
          => \A j, k \in 1..Len(context') :
                j < k =>
                   /\ context'[j].position <= context'[k].position
                   /\ context'[j].position = context'[k].position =>
                         /\ ~(context'[j].kind = "Question" /\ context'[k].kind = "FakeQuestion")
                         /\ (context'[j].kind = "FakeQuestion" /\ context'[k].kind = "FakeQuestion")
                               => KeyRank(context'[j].id) < KeyRank(context'[k].id)]_vars

\* the list of an event that asks for the company, after a reorder that put
\* the company between the two questions
C21_Witness ==
    /\ Listed_questions(req, resp)
    /\ Len(context) = 3
    /\ context[1].kind = "Question" /\ context[1].position = 0
    /\ context[2].kind = "FakeQuestion" /\ context[2].position = 1
    /\ context[3].kind = "Question" /\ context[3].position = 2

\* a virtual entry and a question of equal position: the virtual one is first
C21_WitnessTie ==
    /\ Listed_questions(req, resp)
    /\ \E k \in 1..(Len(context) - 1) :
          /\ context[k].kind = "FakeQuestion"
          /\ context[k + 1].kind = "Question"
          /\ context[k].position = context[k + 1].position

\* ---------------------------------------------------------------- deletes

\* a permitted delete request for an item of the event
ItemDeleteRequest(r) ==
    /\ r.op = "item_delete"
    /\ Permitted(r)
    /\ items[r.pk].live /\ items[r.pk].event = r.event
MessageTexts(M) == {m.text : m \in M}
DeletedTexts == {"The selected product has been deleted."}
DisabledTexts ==
    {"The selected product has been deactivated.",
     "The product could not be deleted as some constraints (e.g. data created by plug-ins) did not allow it. Deleting it could break reporting or other functionality, so the product has been disabled instead."}

\* C22: ItemDelete.delete on an existing item does not fail because of
\* dependent records: afterwards the item is gone (message 'deleted') or it
\* is still there with active = False (message 'deactivated' or 'disabled
\* instead'); it never stays active.
C22_DeletedOrDisabled ==
    [][ItemDeleteRequest(req')
          => /\ resp' = "302"
             /\ \/ ~items'[req'.pk].live /\ MessageTexts(flash') \subseteq DeletedTexts
                \/ /\ items'[req'.pk].live
                   /\ ~items'[req'.pk].active
                   /\ MessageTexts(flash') \subseteq DisabledTexts
             /\ Cardinality(flash') = 1]_vars

\* an item that plug-in data protects was disabled instead of deleted
C22_Witness ==
    /\ resp = "302"
    /\ req.op = "item_delete"
    /\ req.env = "protected"
    /\ items[req.pk].live
    /\ ~items[req.pk].active
    /\ \E m \in flash : m.level = "error"

\* C28 as stated: after ItemDelete.delete the audit records of the request
\* hold a 'pretix.event.item.deleted' record for the item if and only if the
\* item was deleted; when the item was disabled instead, the only record is
\* 'pretix.event.item.changed' with active = False.
C28_DeletedRecordIffDeleted ==
    [][ItemDeleteRequest(req')
          => LET deleted == {lg \in logged' : lg.action = "pretix.event.item.deleted"
                                                /\ lg.pk = req'.pk}
             IN /\ (deleted # {}) <=> ~items'[req'.pk].live
                /\ items'[req'.pk].live
                      => \A lg \in logged' :
                            /\ lg.action = "pretix.event.item.changed"
                            /\ lg.data = [active |-> FALSE]]_vars

\* a permitted delete request for a category of the event
CategoryDeleteRequest(r) ==
    /\ r.op = "category_delete"
    /\ Permitted(r)
    /\ categories[r.pk].live /\ categories[r.pk].event = r.event

\* C23: CategoryDelete.delete removes the category, sets the category of
\* each of its items to none and leaves their positions, leaves every other
\* item and the position of every other category as they were, and writes
\* exactly one 'pretix.event.category.deleted' audit record.
C23_CategoryDeleted ==
    [][CategoryDeleteRequest(req')
          => /\ resp' = "302"
             /\ ~categories'[req'.pk].live
             /\ \A c \in CategoryIds \ {req'.pk} : categories'[c] = categories[c]
             /\ \A i \in ItemIds :
                   IF items[i].live /\ items[i].category = req'.pk
                   THEN /\ items'[i].live
                        /\ items'[i].category = NoCategory
                        /\ items'[i].position = items[i].position
                   ELSE items'[i] = items[i]
             /\ Cardinality(logged') = 1
             /\ \A lg \in logged' :
                   /\ lg.action = "pretix.event.category.deleted"
                   /\ lg.model = "ItemCategory" /\ lg.pk = req'.pk /\ lg.nth = 1]_vars

\* the category of three items was deleted: the items are without category
\* at the positions 0, 1, 2 they had
C23_Witness ==
    /\ resp = "302"
    /\ req.op = "category_delete"
    /\ ~categories[req.pk].live
    /\ Cardinality(Pks(saved, "Item")) = 3
    /\ \A i \in Pks(saved, "Item") : items[i].category = NoCategory
    /\ {items[i].position : i \in Pks(saved, "Item")} = {0, 1, 2}

\* the first of three categories was deleted: the others stay at 1 and 2
C23_WitnessGap ==
    /\ resp = "302"
    /\ req.op = "category_delete"
    /\ ~categories[req.pk].live
    /\ {categories[c].position : c \in EventCategories(categories, req.event)} = {1, 2}

\* a permitted, valid POST to ItemUpdateGeneral for an item of the event
ItemUpdateRequest(r) ==
    /\ r.op = "item_update"
    /\ Permitted(r)
    /\ items[r.pk].live /\ items[r.pk].event = r.event

\* C24 as stated: when ItemUpdateGeneral.form_valid changes fields of the
\* item, exactly one invalidate task for (event, item) is handed over, and the
\* database then holds the item's new values; when nothing changed, no task is
\* handed over.
C24_InvalidateAfterPersist ==
    [][ItemUpdateRequest(req')
          => IF items'[req'.pk] # items[req'.pk]
             THEN /\ Cardinality(dispatched') = 1
                  /\ \A t \in dispatched' :
                        /\ t.task = "invalidate_cache"
                        /\ t.event = req'.event /\ t.item = req'.pk
                        /\ t.stored = items'[req'.pk]
             ELSE dispatched' = {}]_vars

\* C30 as stated: a 'pretix.event.question.reordered' record is added only
\* by reorder_questions, for a question whose stored position changes, with
\* the new position as payload; QuestionUpdate adds no record of that kind.
C30_ReorderedOnlyByReorder ==
    [][\A lg \in logged' :
          lg.action = "pretix.event.question.reordered"
             => /\ req'.op = "reorder_questions"
                /\ questions'[lg.pk].position # questions[lg.pk].position
                /\ DOMAIN lg.data = {"position"}
                /\ lg.data.position = IntValue(questions'[lg.pk].position)]_vars

\* the rows a move exchanges: none at the boundary
SwappedPair(r) == IF AtBoundary(r) THEN {} ELSE {r.pk, Neighbour(r)}

\* C25: after item_move or category_move on an existing row, in either
\* direction, from a scope whose positions are pairwise distinct (gaps
\* allowed), the positions of the scope's rows are exactly 0..n-1, one row
\* each, and the rows other than the swapped pair keep their relative order.
C25_MoveNormalises ==
    [][(MoveRequest(req') /\ Distinct(MoveScope(req'), MoveRows(req')))
          => LET S == MoveScope(req')
                 rows == MoveRows(req')
                 after == MoveRowsAfter(req')
             IN /\ resp' = "302"
                /\ Positions(S, after) = 0..(Cardinality(S) - 1)
                /\ Distinct(S, after)
                /\ \A x \in S : after[x].live
                /\ \A x, y \in S \ SwappedPair(req') :
                      rows[x].position < rows[y].position
                         => after[x].position < after[y].position]_vars

\* three items at positions 1, 2, 4: the first was moved down and the three
\* are at 1, 0, 2; the categories still are at positions with gaps
C25_Witness ==
    /\ workload = "sparse"
    /\ resp = "302"
    /\ req.op = "item_move_down" /\ req.pk = 1
    /\ Permitted(req)
    /\ saved # {}
    /\ [i \in 1..3 |-> items[i].position] = <<1, 0, 2>>
    /\ [c \in 1..3 |-> categories[c].position] = SparsePositions

\* the ids of a complete reorder request of event e: the pk of every question
\* of the event as a string, and the key of every system question asked for
AskedKeys(e) == {key \in SevenKeys : AskedSetting(key) \in settings[e]}
RoundTripIds(qs, e) == {Str[q] : q \in EventQuestions(qs, e)} \cup AskedKeys(e)
\* the position stored for an id: of the question, or of the key in
\* system_question_order
StoredPosition(id, qs, order) ==
    IF id \in SevenKeys THEN (IF id \in DOMAIN order THEN order[id] ELSE -1)
    ELSE qs[CHOOSE q \in QuestionIds : Str[q] = id].position
\* the id a list entry shows
EntryId(entry) == IF entry.kind = "Question" THEN Str[entry.pk] ELSE entry.id
\* a successful reorder_questions request whose ids name every question of
\* the event and every asked system key once, and nothing else
RoundTripRequest(r, status) ==
    /\ r.op = "reorder_questions" /\ status = "200"
    /\ Len(r.ids) = Cardinality(RoundTripIds(questions, r.event))
    /\ {r.ids[k] : k \in 1..Len(r.ids)} = RoundTripIds(questions, r.event)

\* C26: a successful reorder_questions request with duplicate-free ids that
\* are exactly the questions of the event and the asked system keys stores,
\* for the k-th id, the position k - 1; and from a state where the stored
\* positions of these ids are 0..n-1, one each, the list built by
\* QuestionList.get_context_data shows the ids in the order of their stored
\* positions: the list after the request is the submitted order.
C26_RoundTrip ==
    [][/\ RoundTripRequest(req', resp')
          => \A k \in 1..Len(req'.ids) :
                StoredPosition(req'.ids[k], questions',
                               system_question_order'[req'.event]) = k - 1
       /\ Listed_questions(req', resp')
          => LET ids == RoundTripIds(questions, req'.event)
                 pos(id) == StoredPosition(id, questions,
                                           system_question_order[req'.event])
             IN ({pos(id) : id \in ids} = 0..(Cardinality(ids) - 1))
                   => /\ Len(context') = Cardinality(ids)
                      /\ \A k \in 1..Len(context') :
                            /\ EntryId(context'[k]) \in ids
                            /\ pos(EntryId(context'[k])) = k - 1]_vars

\* the company is asked for; after a reorder to question 2, company,
\* question 1 the list shows the three in this order
C26_Witness ==
    /\ req.op = "question_list" /\ req.event = 1
    /\ resp = "200"
    /\ settings[1] = {"attendee_company_asked"}
    /\ [k \in 1..Len(context) |-> EntryId(context[k])] = <<"2", "company", "1">>
    /\ questions[2].position = 0 /\ questions[1].position = 2
    /\ system_question_order[1]["company"] = 1

\* what the reorder view of request r does in the present state
Reorder(r) ==
    CASE r.op = "reorder_items" -> reorder_items(r)
      [] r.op = "reorder_categories" -> reorder_categories(r)
      [] OTHER -> reorder_questions(r)
\* the writes and audit records of the reordered entities themselves
EntityModels == {"Item", "ItemCategory", "Question"}
ReorderedActions == {"pretix.event.item.reordered", "pretix.event.category.reordered",
                     "pretix.event.question.reordered"}
EntityWrites(o) == {sv \in o.saved : sv.model \in EntityModels}
ReorderedRecords(o) == {lg \in o.logged : lg.action \in ReorderedActions}

\* C27: in the state a successful reorder_items, reorder_categories or
\* reorder_questions request leaves, the same request again (same ids, same
\* target category) succeeds, writes no item, category or question, adds no
\* 'reordered' audit record and leaves every position and category as it is.
C27_ReorderIdempotent ==
    (req.op \in ReorderOps /\ resp = "200")
       => LET again == Reorder(req)
          IN /\ again.status = "200"
             /\ EntityWrites(again) = {}
             /\ ReorderedRecords(again) = {}
             /\ again.items = items
             /\ again.categories = categories
             /\ again.questions = questions
             /\ again.system_question_order = system_question_order

\* a reorder_categories request for the order 3, 1, 2 that found this order
\* stored and wrote nothing
C27_Witness ==
    /\ req.op = "reorder_categories" /\ resp = "200"
    /\ req.ids = <<"3", "1", "2">>
    /\ saved = {} /\ logged = {}
    /\ [c \in 1..3 |-> categories[c].position] = <<1, 2, 0>>

\* the same for the questions 2, 1 with the company asked for and placed
\* last: only the settings are written again
C27_WitnessQuestions ==
    /\ req.op = "reorder_questions" /\ resp = "200"
    /\ req.ids = <<"2", "1", "company">>
    /\ EntityWrites([saved |-> saved]) = {}
    /\ ReorderedRecords([logged |-> logged]) = {}
    /\ questions[2].position = 0 /\ questions[1].position = 1

\* the event of the entity an audit record or a save is about
EventOfEntity(model, pk) ==
    CASE model = "Item" -> ItemEvent(pk)
      [] model = "ItemCategory" -> CategoryEvent(pk)
      [] model = "Question" -> QuestionEvent(pk)
      [] OTHER -> pk
\* the pks the digit strings of ids name
NamedPks(ids) == {DigitValue[ids[k]] : k \in {j \in 1..Len(ids) : isdigit(ids[j])}}
\* the request names an item, category or question of another event: as the
\* row to move, in ids, or as the target category of reorder_items
NamesForeign(r) ==
    \/ r.op \in ItemMoveOps /\ r.pk \in ItemIds
          /\ items[r.pk].live /\ items[r.pk].event # r.event
    \/ r.op \in MoveOps \ ItemMoveOps /\ r.pk \in CategoryIds
          /\ categories[r.pk].live /\ categories[r.pk].event # r.event
    \/ r.op = "reorder_items" /\ r.body = "ids"
          /\ \/ \E i \in NamedPks(r.ids) \cap ItemIds :
                   items[i].live /\ items[i].event # r.event
             \/ /\ r.pk # NoCategory
                /\ categories[r.pk].live /\ categories[r.pk].event # r.event
    \/ r.op = "reorder_categories" /\ r.body = "ids"
          /\ \E c \in NamedPks(r.ids) \cap CategoryIds :
                categories[c].live /\ categories[c].event # r.event
    \/ r.op = "reorder_questions" /\ r.body = "ids"
          /\ \E q \in NamedPks(r.ids) \cap QuestionIds :
                questions[q].live /\ questions[q].event # r.event

\* no move or reorder request changes a row or the system question order of
\* another event, or saves or logs on an entity of another event
C29_ForeignUntouched ==
    [][req'.op \in MoveOps \cup ReorderOps
          => /\ \A i \in ItemIds : items[i].event # req'.event => items'[i] = items[i]
             /\ \A c \in CategoryIds :
                   categories[c].event # req'.event => categories'[c] = categories[c]
             /\ \A q \in QuestionIds :
                   questions[q].event # req'.event => questions'[q] = questions[q]
             /\ \A e \in Events \ {req'.event} :
                   system_question_order'[e] = system_question_order[e]
             /\ \A lg \in logged' : EventOfEntity(lg.model, lg.pk) = req'.event
             /\ \A sv \in saved' : EventOfEntity(sv.model, sv.pk) = req'.event]_vars

\* C29 as stated: no move or reorder request changes, saves or logs on an
\* item, category or question of another event; a permitted request that
\* names such an entity is answered as if the id did not exist, with a
\* not-found error and no write.
C29_EventIsolation ==
    [][req'.op \in MoveOps \cup ReorderOps
          => /\ \A i \in ItemIds : items[i].event # req'.event => items'[i] = items[i]
             /\ \A c \in CategoryIds :
                   categories[c].event # req'.event => categories'[c] = categories[c]
             /\ \A q \in QuestionIds :
                   questions[q].event # req'.event => questions'[q] = questions[q]
             /\ \A lg \in logged' : EventOfEntity(lg.model, lg.pk) = req'.event
             /\ (Permitted(req') /\ NamesForeign(req'))
                   => (resp' = "404" /\ db' = db /\ saved' = {} /\ logged' = {})]_vars

====
